---- MODULE Spec2Model ----
(***************************************************************************)
(* A model of the configuration loader of Laisky/go-config: the store      *)
(* wrapper `config` (a viper instance behind one sync.RWMutex), the        *)
(* include-chain resolution and ordered merge of LoadFromFile, and the     *)
(* one-shot file watch that reloads on change.                             *)
(*                                                                         *)
(* Every goroutine is a thread with a frame (its program counter and the   *)
(* locals of the function it runs).  A call on the underlying viper store  *)
(* takes two steps: a Begin step that takes the lock the wrapper takes (if *)
(* any) and enters the store, and an End step that applies the effect,     *)
(* leaves the store and releases the lock.                                 *)
(***************************************************************************)
EXTENDS Integers, Sequences, FiniteSets, TLC

VARIABLES
    fs,      \* the file system: path -> directory entry
    v,       \* the viper store: config layer, override layer, config type
    mu,      \* the sync.RWMutex of the instance
    dirty,   \* threads whose current store access overlaps a conflicting one
    once,    \* watchOnce: has Do run?
    sub,     \* the file-watch subscription started by watch()
    events,  \* change events: those delivered and not yet handled, the number
             \* of file edits so far, and the record of the handled ones
    written, \* per key, the values completed Set calls wrote (observation)
    fr,      \* per thread: program counter and locals
    hist,    \* per thread: what the current LoadFromFile call did (observation)
    atomicFieldBool  \* an AtomicFieldBool shared by the threads

vars == <<fs, v, mu, dirty, once, sub, events, written, fr, hist, atomicFieldBool>>

----------------------------------------------------------------------------
(* Bounds *)

\* Values a caller passes to Set are 1..MaxVal.
MaxVal == 2
\* The files are edited at most MaxEdits times, so at most MaxEdits change
\* events are delivered to the watch subscription.
MaxEdits == 2

Reverse(s) == [n \in 1..Len(s) |-> s[Len(s) - n + 1]]

InSeq(x, s) == \E n \in 1..Len(s) : s[n] = x

NoDup(s) == \A m, n \in 1..Len(s) : s[m] = s[n] => m = n

----------------------------------------------------------------------------
(* Paths.  A path is a directory (a sequence of components) and a base     *)
(* name (its dot-separated parts): d/c.yml.enc is <<"d">>, <<"c","yml",    *)
(* "enc">>.  The empty string is the path with no component at all.        *)

Path(dir, base) == [dir |-> dir, base |-> base]

EmptyStr == Path(<<>>, <<>>)

PA == Path(<<"d">>, <<"a", "yml">>)
PB == Path(<<"d">>, <<"b", "yml">>)
PC == Path(<<"d">>, <<"c", "yml", "enc">>)
PD == Path(<<"d">>, <<"d", "toml">>)

Paths == {PA, PB, PC, PD}

\* What a file's `include` key may hold: a path relative to the entry's directory.
IncA == Path(<<".">>, <<"a", "yml">>)
IncB == Path(<<>>, <<"b", "yml">>)
IncC == Path(<<"sub", "..">>, <<"c", "yml", "enc">>)
IncD == Path(<<>>, <<"d", "toml">>)

\* filepath.Clean on the directory part: "." is dropped, ".." removes the
\* component before it.
RECURSIVE CleanDir(_)
CleanDir(s) ==
    IF s = <<>> THEN <<>>
    ELSE LET h == CleanDir(SubSeq(s, 1, Len(s) - 1))
             l == s[Len(s)]
         IN  IF l = "." THEN h
             ELSE IF l = ".." /\ h # <<>> /\ h[Len(h)] # ".."
                  THEN SubSeq(h, 1, Len(h) - 1)
                  ELSE Append(h, l)

\* filepath.Dir(entryFile)
Dir(p) == CleanDir(p.dir)

\* filepath.Join(cfgDir, curFpath)
Join(dir, rel) == Path(CleanDir(dir \o rel.dir), rel.base)

\* strings.HasSuffix(fname, suffix), on the dot-separated parts of the name
HasSuffix(base, suffix) ==
    /\ Len(suffix) <= Len(base)
    /\ SubSeq(base, Len(base) - Len(suffix) + 1, Len(base)) = suffix

\* strings.TrimSuffix(fname, suffix)
TrimSuffix(base, suffix) ==
    IF HasSuffix(base, suffix) THEN SubSeq(base, 1, Len(base) - Len(suffix)) ELSE base

\* strings.TrimLeft(filepath.Ext(name), "."): the last part, if the name has a dot
Ext(base) == IF Len(base) >= 2 THEN base[Len(base)] ELSE ""

----------------------------------------------------------------------------
(* File contents *)

Keys == {"a", "b"}

\* The value of a key that is not set.
Nil == 0
\* What a read that races with a write may return.
Torn == -1

Vals == 1..MaxVal

EmptyKV == [k \in Keys |-> Nil]

Missing == [kind |-> "missing"]
Directory == [kind |-> "dir"]

\* A regular file: the format its plaintext is written in ("bad" when it
\* parses in no format), the key it is encrypted with ("plain" when it is
\* not), and the document it holds: its `include` value and its other keys.
File(fmt, enc, inc, kv) ==
    [kind |-> "file", fmt |-> fmt, enc |-> enc, inc |-> inc, kv |-> kv]

\* The keys in S, each with value x
KV(S, x) == [k \in Keys |-> IF k \in S THEN x ELSE Nil]

----------------------------------------------------------------------------
(* The viper store *)

EmptyConfig == [kv |-> EmptyKV, inc |-> EmptyStr]

\* viper.New()
NewViper == [config |-> EmptyConfig, override |-> EmptyKV, configType |-> ""]

\* The decryption wrapper: the plaintext of a file encrypted with `key`.
Decrypt(bytes, key) ==
    IF bytes.enc = key THEN [ok |-> TRUE, bytes |-> [bytes EXCEPT !.enc = "plain"]]
    ELSE [ok |-> FALSE, bytes |-> bytes]

\* The format a config type names: "yaml" and "yml" are YAML
Format(configType) == IF configType = "yaml" THEN "yml" ELSE configType

\* viper's unmarshalReader: the document of `bytes` read as `configType`; the
\* empty document parses in every supported type
Unmarshal(bytes, configType) ==
    IF bytes.enc = "plain" /\ bytes.fmt \in {Format(configType), "empty"}
       /\ configType \in {"yml", "yaml", "toml"}
    THEN [ok |-> TRUE, cfg |-> [kv |-> bytes.kv, inc |-> bytes.inc]]
    ELSE [ok |-> FALSE, cfg |-> EmptyConfig]

\* viper's mergeMaps(src, tgt): every key of src overrides tgt's
MergeMaps(src, tgt) ==
    [kv  |-> [k \in Keys |-> IF src.kv[k] # Nil THEN src.kv[k] ELSE tgt.kv[k]],
     inc |-> IF src.inc # EmptyStr THEN src.inc ELSE tgt.inc]

\* v.ReadConfig if it overlaid the document on the config layer
ViperReadConfigMerging(st, bytes, configType) ==
    IF Unmarshal(bytes, configType).ok
    THEN [st EXCEPT !.config = MergeMaps(Unmarshal(bytes, configType).cfg, st.config)]
    ELSE st

\* v.ReadConfig(in): the config layer is replaced (emptied when the parse fails)
ViperReadConfig(st, bytes, configType) ==
    [st EXCEPT !.config = Unmarshal(bytes, configType).cfg]

\* v.MergeConfig(in): the document is overlaid (nothing changes when the parse fails)
ViperMergeConfig(st, bytes, configType) ==
    IF Unmarshal(bytes, configType).ok
    THEN [st EXCEPT !.config = MergeMaps(Unmarshal(bytes, configType).cfg, st.config)]
    ELSE st

\* v.Get if it looked in the config layer (files) before the override layer
ViperGetConfigFirst(st, k) == IF st.config.kv[k] # Nil THEN st.config.kv[k] ELSE st.override[k]

\* v.Get(key): the override layer (Set) goes before the config layer (files)
ViperGet(st, k) == IF st.override[k] # Nil THEN st.override[k] ELSE st.config.kv[k]

\* A time.Duration of n nanoseconds
Duration(n) == [ns |-> n]

\* cast.ToInt64 and cast.ToDuration of a stored integer, or of nil
ToInt64(x) == IF x = Nil THEN 0 ELSE x
ToDuration(x) == IF x = Nil THEN Duration(0) ELSE Duration(x)

\* v.GetInt64(key), v.GetDuration(key), v.IsSet(key)
ViperGetInt64(st, k) == ToInt64(ViperGet(st, k))
ViperGetDuration(st, k) == ToDuration(ViperGet(st, k))
ViperIsSet(st, k) == ViperGet(st, k) # Nil

\* v.GetString("include")
ViperGetInclude(st) == st.config.inc

\* v.Set(key, val)
ViperSet(st, k, x) == [st EXCEPT !.override[k] = x]

----------------------------------------------------------------------------
(* Options *)

\* The options a caller passes: which of the option functions it gives.
\* aes is "none" when WithAesEncrypt is not given, else the key ("" is empty).
Opts(include, aes, watch, cb) ==
    [include |-> include, aes |-> aes, watch |-> watch, cb |-> cb]

NoOpts == Opts(FALSE, "none", FALSE, FALSE)

\* new(option).fillDefault()
fillDefault ==
    [enableInclude |-> FALSE, aesKey |-> "nil", encryptedSuffix |-> <<"enc">>,
     watchModify |-> FALSE, watchModifyCallback |-> FALSE]

\* applyOptfs if WithAesEncrypt took an empty key
applyOptfsAnyKey(o, opts) ==
    [ok |-> TRUE,
     opt |-> [o EXCEPT !.enableInclude = opts.include,
                       !.aesKey = IF opts.aes = "none" THEN "nil" ELSE opts.aes,
                       !.watchModify = opts.watch,
                       !.watchModifyCallback = opts.cb]]

\* applyOptfs over WithEnableInclude, WithAesEncrypt, WithWatchFileModified:
\* the error of WithAesEncrypt with an empty key ends it
applyOptfs(o, opts) ==
    IF opts.aes = ""
    THEN [ok |-> FALSE, opt |-> o]
    ELSE [ok |-> TRUE,
          opt |-> [o EXCEPT !.enableInclude = opts.include,
                            !.aesKey = IF opts.aes = "none" THEN "nil" ELSE opts.aes,
                            !.watchModify = opts.watch,
                            !.watchModifyCallback = opts.cb]]

\* WithEncryptedFileSuffix(suffix), applied to o
WithEncryptedFileSuffix(o, suffix) == [o EXCEPT !.encryptedSuffix = suffix]

\* isSettingsFileEncrypted if it did not look at whether the suffix is empty
isSettingsFileEncryptedAnySuffix(opt, fname) ==
    IF opt.aesKey = "nil" THEN FALSE
    ELSE HasSuffix(fname.base, opt.encryptedSuffix)

isSettingsFileEncrypted(opt, fname) ==
    IF opt.aesKey = "nil" THEN FALSE
    ELSE opt.encryptedSuffix # <<>> /\ HasSuffix(fname.base, opt.encryptedSuffix)

----------------------------------------------------------------------------
(* Threads, frames, the lock *)

Threads == {"main", "watcher", "c1", "c2"}

NoThread == "nobody"

\* A change event (fsnotify.Event): its number in delivery order, and the
\* path that changed
NoEvent == [id |-> 0, name |-> EmptyStr]

\* The subscription's events: those sent and not yet taken, the number of
\* edits so far, the events handled, and whether the caller has cancelled the
\* context it holds
NoEvents == [pending |-> <<>>, n |-> 0, done |-> <<>>, cancelled |-> FALSE]

IdleFrame ==
    [pc |-> "idle", caller |-> "user", entryFile |-> EmptyStr, opts |-> NoOpts,
     opt |-> fillDefault, curFpath |-> EmptyStr, cfgDir |-> <<>>, cfgFiles |-> <<>>,
     i |-> 0, err |-> "nil", key |-> "a", val |-> Nil, got |-> Nil, e |-> NoEvent,
     ret |-> FALSE, srv |-> <<>>, name |-> ""]

\* What a LoadFromFile call has done so far: the config layer when it was
\* called, the files it passed to ReadConfig, the files it merged, and the
\* config layer after its last successful merge (before it: as when called);
\* whether no other thread was inside LoadFromFile and no file was edited
\* since it was called; for the handler of a change event, the reloads and
\* the user callbacks it ran for the event; the files loadConfigFiles tried to
\* open; whether the call went on to s.watch; and, for a load from the config
\* server, how its srv.Fetch() ended.
IdleHist ==
    [pre |-> EmptyConfig, reads |-> <<>>, merged |-> <<>>, lastMerge |-> EmptyConfig,
     alone |-> TRUE, stable |-> TRUE, reloads |-> 0, cbs |-> 0, opened |-> <<>>,
     watched |-> FALSE, fetched |-> "none"]

Unlocked == [w |-> NoThread, r |-> {}]

\* The wrappers if Set called the store without taking the lock
LockOfUnlockedSet(op) ==
    CASE op = "Get" -> "R"
      [] op = "GetString" -> "R"
      [] op = "Set" -> "-"
      [] op = "ReadConfig" -> "W"
      [] op = "MergeConfig" -> "W"
      [] op = "SetConfigType" -> "-"
      [] op = "GetInt64" -> "R"
      [] op = "GetDuration" -> "R"
      [] op = "IsSet" -> "W"

\* The lock each wrapper method takes around its call on the store:
\* "W" s.Lock(), "R" s.RLock(), "-" none.
LockOf(op) ==
    CASE op = "Get" -> "R"
      [] op = "GetString" -> "R"
      [] op = "Set" -> "W"
      [] op = "ReadConfig" -> "W"
      [] op = "MergeConfig" -> "W"
      [] op = "SetConfigType" -> "-"
      [] op = "GetInt64" -> "R"
      [] op = "GetDuration" -> "R"
      [] op = "IsSet" -> "W"

CanLock(kind) ==
    CASE kind = "W" -> mu.w = NoThread /\ mu.r = {}
      [] kind = "R" -> mu.w = NoThread
      [] OTHER -> TRUE

Lock(t, kind) ==
    CASE kind = "W" -> [mu EXCEPT !.w = t]
      [] kind = "R" -> [mu EXCEPT !.r = @ \cup {t}]
      [] OTHER -> mu

Unlock(t, kind) ==
    CASE kind = "W" -> [mu EXCEPT !.w = NoThread]
      [] kind = "R" -> [mu EXCEPT !.r = @ \ {t}]
      [] OTHER -> mu

\* The store call a thread is inside of
OpOf(pc) ==
    CASE pc = "setType_in" -> "SetConfigType"
      [] pc = "readConfig_in" -> "ReadConfig"
      [] pc = "getInclude_in" -> "GetString"
      [] pc = "merge_in" -> "MergeConfig"
      [] pc = "get_in" -> "Get"
      [] pc = "set_in" -> "Set"
      [] pc = "getInt64_in" -> "GetInt64"
      [] pc = "getDuration_in" -> "GetDuration"
      [] pc = "isSet_in" -> "IsSet"
      [] pc = "raw_setType_in" -> "SetConfigType"
      [] pc = "raw_read_in" -> "ReadConfig"
      [] OTHER -> "none"

\* The fields of the viper instance a call reads and writes
Writes(op) ==
    CASE op = "SetConfigType" -> {"configType"}
      [] op = "ReadConfig" -> {"config"}
      [] op = "MergeConfig" -> {"config"}
      [] op = "Set" -> {"override"}
      [] OTHER -> {}

Reads(op) ==
    CASE op = "ReadConfig" -> {"configType"}
      [] op = "MergeConfig" -> {"configType", "config"}
      [] op = "Get" -> {"override", "config"}
      [] op = "GetString" -> {"override", "config"}
      [] op = "GetInt64" -> {"override", "config"}
      [] op = "GetDuration" -> {"override", "config"}
      [] op = "IsSet" -> {"override", "config"}
      [] OTHER -> {}

Conflict(o1, o2) ==
    \/ Writes(o1) \cap (Reads(o2) \cup Writes(o2)) # {}
    \/ Writes(o2) \cap (Reads(o1) \cup Writes(o1)) # {}

\* Thread t enters store call op: it and every thread inside a conflicting
\* call are in a data race from now on.
Enter(t, op) ==
    LET D == {u \in Threads \ {t} : Conflict(op, OpOf(fr[u].pc))}
    IN  IF D = {} THEN dirty ELSE dirty \cup D \cup {t}

\* The config type a parse sees: the store's, or garbage when the read races
TypeSeen(t) == IF t \in dirty THEN {v.configType, "garbled"} ELSE {v.configType}

Stat(p) == IF p \in DOMAIN fs THEN fs[p] ELSE Missing

\* What reading the open file yields.  os.Open opens a directory too; reading
\* it fails, and viper ignores the read error and parses the empty document.
Bytes(p) ==
    IF Stat(p).kind = "file" THEN Stat(p) ELSE File("empty", "plain", EmptyStr, EmptyKV)

\* The bytes a reader over the open file yields: through the AES wrapper when
\* the file counts as encrypted
Reader(opt, p) ==
    IF isSettingsFileEncrypted(opt, p) THEN Decrypt(Bytes(p), opt.aesKey)
    ELSE [ok |-> TRUE, bytes |-> Bytes(p)]

Returned(f, e) == [f EXCEPT !.pc = "returned", !.err = e]

----------------------------------------------------------------------------
(* Get and Set *)

\* s.Get(key): s.RLock(), then inside s.v.Get(key)
Get_Begin(t, k) ==
    /\ fr[t].pc \in {"idle", "callback"}
    /\ CanLock(LockOf("Get"))
    /\ mu' = Lock(t, LockOf("Get"))
    /\ dirty' = Enter(t, "Get")
    /\ fr' = [fr EXCEPT ![t].pc = "get_in", ![t].key = k]
    /\ UNCHANGED <<atomicFieldBool, fs, v, once, sub, events, written, hist>>

\* s.v.Get(key) returns, s.RUnlock()
Get_End(t) ==
    /\ fr[t].pc = "get_in"
    /\ mu' = Unlock(t, LockOf("Get"))
    /\ dirty' = dirty \ {t}
    /\ fr' = [fr EXCEPT ![t].pc = "got",
                        ![t].got = IF t \in dirty THEN Torn ELSE ViperGet(v, fr[t].key)]
    /\ UNCHANGED <<atomicFieldBool, fs, v, once, sub, events, written, hist>>

\* s.Set(key, val): s.Lock(), then inside s.v.Set(key, val)
Set_Begin(t, k, x) ==
    /\ fr[t].pc = "idle"
    /\ CanLock(LockOf("Set"))
    /\ mu' = Lock(t, LockOf("Set"))
    /\ dirty' = Enter(t, "Set")
    /\ fr' = [fr EXCEPT ![t].pc = "set_in", ![t].key = k, ![t].val = x]
    /\ UNCHANGED <<atomicFieldBool, fs, v, once, sub, events, written, hist>>

\* s.v.Set(key, val) returns, s.Unlock()
Set_End(t) ==
    /\ fr[t].pc = "set_in"
    /\ mu' = Unlock(t, LockOf("Set"))
    /\ dirty' = dirty \ {t}
    /\ v' = ViperSet(v, fr[t].key, IF t \in dirty THEN Torn ELSE fr[t].val)
    /\ written' = [written EXCEPT ![fr[t].key] = @ \cup {fr[t].val}]
    /\ fr' = [fr EXCEPT ![t] = IdleFrame]
    /\ UNCHANGED <<atomicFieldBool, fs, once, sub, events, hist>>

\* The caller of Get is done with the value it got
Get_Return(t) ==
    /\ fr[t].pc = "got"
    /\ fr[t].caller = "user"
    /\ fr' = [fr EXCEPT ![t] = IdleFrame]
    /\ UNCHANGED <<atomicFieldBool, fs, v, mu, dirty, once, sub, events, written, hist>>

\* The typed getters and IsSet
Getters == {"GetInt64", "GetDuration", "IsSet"}

\* The program counter inside the store call of getter g, and after it
InPc(g) ==
    CASE g = "GetInt64" -> "getInt64_in"
      [] g = "GetDuration" -> "getDuration_in"
      [] g = "IsSet" -> "isSet_in"

DonePc(g) ==
    CASE g = "GetInt64" -> "gotInt64"
      [] g = "GetDuration" -> "gotDuration"
      [] g = "IsSet" -> "gotIsSet"

\* s.GetInt64(key), s.GetDuration(key), s.IsSet(key): the lock, then inside
\* the store call
Getter_Begin(t, g, k) ==
    /\ fr[t].pc = "idle"
    /\ CanLock(LockOf(g))
    /\ mu' = Lock(t, LockOf(g))
    /\ dirty' = Enter(t, g)
    /\ fr' = [fr EXCEPT ![t].pc = InPc(g), ![t].key = k]
    /\ UNCHANGED <<atomicFieldBool, fs, v, once, sub, events, written, hist>>

\* The store call returns, the lock is released
Getter_End(t) ==
    /\ OpOf(fr[t].pc) \in Getters
    /\ LET g == OpOf(fr[t].pc)
       IN  /\ mu' = Unlock(t, LockOf(g))
           /\ fr' = [fr EXCEPT
                       ![t].pc = DonePc(g),
                       ![t].got = CASE t \in dirty -> Torn
                                    [] g = "GetInt64" -> ViperGetInt64(v, fr[t].key)
                                    [] g = "GetDuration" -> ViperGetDuration(v, fr[t].key)
                                    [] OTHER -> Nil,
                       ![t].ret = g = "IsSet" /\ ViperIsSet(v, fr[t].key)]
    /\ dirty' = dirty \ {t}
    /\ UNCHANGED <<atomicFieldBool, fs, v, once, sub, events, written, hist>>

\* The caller of the getter is done with the value it got
Getter_Return(t) ==
    /\ fr[t].pc \in {DonePc(g) : g \in Getters}
    /\ fr' = [fr EXCEPT ![t] = IdleFrame]
    /\ UNCHANGED <<atomicFieldBool, fs, v, mu, dirty, once, sub, events, written, hist>>

----------------------------------------------------------------------------
(* AtomicFieldBool: a bool field which is goroutine-safe *)

\* The zero value: v int64 is 0.  Kept with it, as observation: the last of
\* SetTrue and SetFalse whose store took effect, and per thread what that was
\* when the thread's True() loaded v
ZeroAtomicFieldBool ==
    [v |-> 0, last |-> "none", seen |-> [t \in Threads |-> "none"]]

\* atomic.StoreInt64(&a.v, n), atomic.LoadInt64(&a.v)
AtomicStoreInt64(a, n) == [a EXCEPT !.v = n]

AtomicLoadInt64(a) == a.v

\* SetFalse if it flipped v
SetFalseFlipping(a) == AtomicStoreInt64(a, 1 - a.v)

\* SetTrue set true
SetTrue(a) == AtomicStoreInt64(a, 1)

\* SetFalse set false
SetFalse(a) == AtomicStoreInt64(a, 0)

\* True value == true
True(a) == AtomicLoadInt64(a) = 1

AtomicMethods == {"SetTrue", "SetFalse", "True"}

CallPc(m) ==
    CASE m = "SetTrue" -> "setTrue_call"
      [] m = "SetFalse" -> "setFalse_call"
      [] m = "True" -> "true_call"

AtomicPcs == {CallPc(m) : m \in AtomicMethods} \cup {"set_done", "true_done"}

\* Thread t calls method m of the field
AtomicFieldBool_Call(t, m) ==
    /\ fr[t].pc = "idle"
    /\ fr' = [fr EXCEPT ![t].pc = CallPc(m)]
    /\ UNCHANGED <<fs, v, mu, dirty, once, sub, events, written, hist, atomicFieldBool>>

\* The store of SetTrue
SetTrue_Store(t) ==
    /\ fr[t].pc = "setTrue_call"
    /\ atomicFieldBool' = [SetTrue(atomicFieldBool) EXCEPT !.last = "SetTrue"]
    /\ fr' = [fr EXCEPT ![t].pc = "set_done"]
    /\ UNCHANGED <<fs, v, mu, dirty, once, sub, events, written, hist>>

\* The store of SetFalse
SetFalse_Store(t) ==
    /\ fr[t].pc = "setFalse_call"
    /\ atomicFieldBool' = [SetFalse(atomicFieldBool) EXCEPT !.last = "SetFalse"]
    /\ fr' = [fr EXCEPT ![t].pc = "set_done"]
    /\ UNCHANGED <<fs, v, mu, dirty, once, sub, events, written, hist>>

\* The load of True and its comparison with 1
True_Load(t) ==
    /\ fr[t].pc = "true_call"
    /\ fr' = [fr EXCEPT ![t].pc = "true_done", ![t].ret = True(atomicFieldBool)]
    /\ atomicFieldBool' = [atomicFieldBool EXCEPT !.seen[t] = atomicFieldBool.last]
    /\ UNCHANGED <<fs, v, mu, dirty, once, sub, events, written, hist>>

\* The method returns to its caller
AtomicFieldBool_Return(t) ==
    /\ fr[t].pc \in {"set_done", "true_done"}
    /\ fr' = [fr EXCEPT ![t] = IdleFrame]
    /\ atomicFieldBool' = [atomicFieldBool EXCEPT !.seen[t] = "none"]
    /\ UNCHANGED <<fs, v, mu, dirty, once, sub, events, written, hist>>

----------------------------------------------------------------------------
(* LoadFromFile *)

\* Thread u is inside LoadFromFile
Loading(u) ==
    fr[u].pc \notin {"idle", "get_in", "got", "set_in", "callback", "handled", "checked"}
                     \cup {InPc(g) : g \in Getters} \cup {DonePc(g) : g \in Getters}
                     \cup AtomicPcs

NoneLoading(t) == \A u \in Threads \ {t} : ~Loading(u)

\* The record of thread u once another thread has entered LoadFromFile
Disturbed(u) == IF fr[u].pc = "idle" THEN hist[u] ELSE [hist[u] EXCEPT !.alone = FALSE]

\* A caller calls s.LoadFromFile(entryFile, opts...)
LoadFromFile_Call(t, entryFile, opts) ==
    /\ fr[t].pc = "idle"
    /\ fr' = [fr EXCEPT ![t].pc = "lff_check", ![t].entryFile = entryFile,
                        ![t].opts = opts]
    /\ hist' = [u \in Threads |->
                 IF u = t THEN [IdleHist EXCEPT !.pre = v.config, !.lastMerge = v.config,
                                                !.alone = NoneLoading(t)]
                 ELSE Disturbed(u)]
    /\ UNCHANGED <<atomicFieldBool, fs, v, mu, dirty, once, sub, events, written>>

\* gutils.IsFile(entryFile), applyOptfs, and the locals of the include loop
LoadFromFile_Check(t) ==
    /\ fr[t].pc = "lff_check"
    /\ LET f == fr[t]
           o == applyOptfs(fillDefault, f.opts)
       IN  fr' = [fr EXCEPT ![t] =
                IF Stat(f.entryFile).kind = "missing" THEN Returned(f, "stat")
                ELSE IF Stat(f.entryFile).kind # "file" THEN Returned(f, "not a file")
                ELSE IF ~o.ok THEN Returned(f, "apply options")
                ELSE [f EXCEPT !.pc = "lff_open", !.opt = o.opt,
                               !.curFpath = f.entryFile,
                               !.cfgDir = Dir(f.entryFile),
                               !.cfgFiles = <<f.entryFile>>]]
    /\ UNCHANGED <<atomicFieldBool, fs, v, mu, dirty, once, sub, events, written, hist>>

\* RECUR_INCLUDE_LOOP: os.Open(curFpath), then inside s.v.SetConfigType (no lock)
LoadFromFile_Open(t) ==
    /\ fr[t].pc = "lff_open"
    /\ IF Stat(fr[t].curFpath).kind = "missing"
       THEN /\ fr' = [fr EXCEPT ![t] = Returned(@, "open")]
            /\ UNCHANGED <<mu, dirty>>
       ELSE /\ CanLock(LockOf("SetConfigType"))
            /\ mu' = Lock(t, LockOf("SetConfigType"))
            /\ dirty' = Enter(t, "SetConfigType")
            /\ fr' = [fr EXCEPT ![t].pc = "setType_in"]
    /\ UNCHANGED <<atomicFieldBool, fs, v, once, sub, events, written, hist>>

\* s.v.SetConfigType returns; isSettingsFileEncrypted and the AES wrapper
SetConfigType_End(t) ==
    /\ fr[t].pc = "setType_in"
    /\ LET f == fr[t]
           ext == Ext(TrimSuffix(f.curFpath.base, f.opt.encryptedSuffix))
       IN  /\ \E ty \in (IF t \in dirty THEN {ext, "garbled"} ELSE {ext}) :
                  v' = [v EXCEPT !.configType = ty]
           /\ fr' = [fr EXCEPT ![t] =
                  IF ~Reader(f.opt, f.curFpath).ok THEN Returned(f, "decrypt")
                  ELSE [f EXCEPT !.pc = "readConfig"]]
    /\ mu' = Unlock(t, LockOf("SetConfigType"))
    /\ dirty' = dirty \ {t}
    /\ UNCHANGED <<atomicFieldBool, fs, once, sub, events, written, hist>>

\* s.ReadConfig(reader): s.Lock(), then inside s.v.ReadConfig
ReadConfig_Begin(t) ==
    /\ fr[t].pc = "readConfig"
    /\ CanLock(LockOf("ReadConfig"))
    /\ mu' = Lock(t, LockOf("ReadConfig"))
    /\ dirty' = Enter(t, "ReadConfig")
    /\ fr' = [fr EXCEPT ![t].pc = "readConfig_in"]
    /\ UNCHANGED <<atomicFieldBool, fs, v, once, sub, events, written, hist>>

\* s.v.ReadConfig returns, s.Unlock(); an error ends LoadFromFile
ReadConfig_End(t) ==
    /\ fr[t].pc = "readConfig_in"
    /\ \E ty \in TypeSeen(t) :
          LET f == fr[t]
              in == Reader(f.opt, f.curFpath)
              bytes == IF in.ok THEN in.bytes ELSE [in.bytes EXCEPT !.fmt = "bad"]
          IN  /\ v' = ViperReadConfig(v, bytes, ty)
              /\ fr' = [fr EXCEPT ![t] =
                     IF Unmarshal(bytes, ty).ok THEN [f EXCEPT !.pc = "getInclude"]
                     ELSE Returned(f, "load config")]
              /\ hist' = [hist EXCEPT ![t].reads = Append(@, f.curFpath)]
    /\ mu' = Unlock(t, LockOf("ReadConfig"))
    /\ dirty' = dirty \ {t}
    /\ UNCHANGED <<atomicFieldBool, fs, once, sub, events, written>>

\* s.GetString(settingsIncludeKey): s.RLock(), then inside s.v.GetString
GetInclude_Begin(t) ==
    /\ fr[t].pc = "getInclude"
    /\ CanLock(LockOf("GetString"))
    /\ mu' = Lock(t, LockOf("GetString"))
    /\ dirty' = Enter(t, "GetString")
    /\ fr' = [fr EXCEPT ![t].pc = "getInclude_in"]
    /\ UNCHANGED <<atomicFieldBool, fs, v, once, sub, events, written, hist>>

\* The include loop if it joined the include value to the directory of the
\* file that holds it
NextInChainFromIncluder(f, inc) ==
    LET next == Join(Dir(f.curFpath), inc)
    IN  IF inc = EmptyStr THEN [f EXCEPT !.pc = "merge", !.curFpath = inc,
                                         !.i = Len(f.cfgFiles)]
        ELSE IF \E n \in 1..Len(f.cfgFiles) : f.cfgFiles[n] = next
             THEN [f EXCEPT !.pc = "merge", !.curFpath = next, !.i = Len(f.cfgFiles)]
             ELSE [f EXCEPT !.pc = "lff_open", !.curFpath = next,
                            !.cfgFiles = Append(f.cfgFiles, next)]

\* The chain after the include value `inc` was read back: the loop ends on
\* an empty value and on a path already in cfgFiles
NextInChain(f, inc) ==
    LET next == Join(f.cfgDir, inc)
    IN  IF inc = EmptyStr THEN [f EXCEPT !.pc = "merge", !.curFpath = inc,
                                         !.i = Len(f.cfgFiles)]
        ELSE IF \E n \in 1..Len(f.cfgFiles) : f.cfgFiles[n] = next
             THEN [f EXCEPT !.pc = "merge", !.curFpath = next, !.i = Len(f.cfgFiles)]
             ELSE [f EXCEPT !.pc = "lff_open", !.curFpath = next,
                            !.cfgFiles = Append(f.cfgFiles, next)]

\* s.v.GetString returns, s.RUnlock(); the next path of the chain
GetInclude_End(t) ==
    /\ fr[t].pc = "getInclude_in"
    /\ mu' = Unlock(t, LockOf("GetString"))
    /\ dirty' = dirty \ {t}
    /\ fr' = [fr EXCEPT ![t] = NextInChain(@, ViperGetInclude(v))]
    /\ UNCHANGED <<atomicFieldBool, fs, v, once, sub, events, written, hist>>

\* loadConfigFiles if it walked cfgFiles from its first element up
MergeFileForward(cfgFiles, i) == cfgFiles[Len(cfgFiles) - i + 1]

\* loadConfigFiles walks cfgFiles from its last element down to its first:
\* the file it merges when i files are left to merge
MergeFile(cfgFiles, i) == cfgFiles[i]

\* loadConfigFiles, one file: os.Open, the AES wrapper, s.MergeConfig: s.Lock(),
\* then inside s.v.MergeConfig
MergeConfig_Begin(t) ==
    /\ fr[t].pc = "merge"
    /\ LET f == fr[t]
           filePath == MergeFile(f.cfgFiles, f.i)
       IN  IF Stat(filePath).kind = "missing"
           THEN /\ fr' = [fr EXCEPT ![t] = Returned(f, "open")]
                /\ UNCHANGED <<mu, dirty>>
           ELSE IF ~Reader(f.opt, filePath).ok
           THEN /\ fr' = [fr EXCEPT ![t] = Returned(f, "decrypt")]
                /\ UNCHANGED <<mu, dirty>>
           ELSE /\ CanLock(LockOf("MergeConfig"))
                /\ mu' = Lock(t, LockOf("MergeConfig"))
                /\ dirty' = Enter(t, "MergeConfig")
                /\ fr' = [fr EXCEPT ![t].pc = "merge_in"]
    /\ hist' = [hist EXCEPT ![t].opened = Append(@, MergeFile(fr[t].cfgFiles, fr[t].i))]
    /\ UNCHANGED <<atomicFieldBool, fs, v, once, sub, events, written>>

\* loadConfigFiles if it went on to the next file after a failed merge
AfterMergeSkipping(f, ok) ==
    IF f.i > 1 THEN [f EXCEPT !.pc = "merge", !.i = f.i - 1]
    ELSE [f EXCEPT !.pc = "lff_watch"]

\* loadConfigFiles after s.MergeConfig returned: the error is returned at
\* once, else the loop goes on with the file before, and after the first file
\* of cfgFiles LoadFromFile goes on
AfterMerge(f, ok) ==
    IF ~ok THEN Returned(f, "merge config")
    ELSE IF f.i > 1 THEN [f EXCEPT !.pc = "merge", !.i = f.i - 1]
    ELSE [f EXCEPT !.pc = "lff_watch"]

\* s.v.MergeConfig returns, s.Unlock(); an error ends loadConfigFiles
MergeConfig_End(t) ==
    /\ fr[t].pc = "merge_in"
    /\ \E ty \in TypeSeen(t) :
          LET f == fr[t]
              filePath == MergeFile(f.cfgFiles, f.i)
              in == Reader(f.opt, filePath)
              bytes == IF in.ok THEN in.bytes ELSE [in.bytes EXCEPT !.fmt = "bad"]
              ok == Unmarshal(bytes, ty).ok
          IN  /\ v' = ViperMergeConfig(v, bytes, ty)
              /\ fr' = [fr EXCEPT ![t] = AfterMerge(f, ok)]
              /\ hist' = [hist EXCEPT ![t].merged =
                                 IF ok THEN Append(@, filePath) ELSE @,
                                     ![t].lastMerge =
                                 IF ok THEN ViperMergeConfig(v, bytes, ty).config ELSE @]
    /\ mu' = Unlock(t, LockOf("MergeConfig"))
    /\ dirty' = dirty \ {t}
    /\ UNCHANGED <<atomicFieldBool, fs, once, sub, events, written>>

NoSub ==
    [n |-> 0, files |-> <<>>, entryFile |-> EmptyStr, opts |-> NoOpts, opt |-> fillDefault]

\* s.watch if it started a subscription on every call, without watchOnce
watchAgain(opt, entryFile, files, opts, started) ==
    IF started
    THEN [n |-> sub.n + 1, files |-> files, entryFile |-> entryFile, opts |-> opts,
          opt |-> opt]
    ELSE sub

\* s.watch: watchOnce.Do starts gutils.WatchFileChanging over `files`, whose
\* callback reloads entryFile with opts; `started` is whether the watcher
\* could be set up
watch(opt, entryFile, files, opts, started) ==
    IF once THEN sub
    ELSE IF started
         THEN [n |-> sub.n + 1, files |-> files, entryFile |-> entryFile, opts |-> opts,
               opt |-> opt]
         ELSE sub

\* The end of LoadFromFile: s.watch when opt.watchModify, return nil
LoadFromFile_Watch(t) ==
    /\ fr[t].pc = "lff_watch"
    /\ IF fr[t].opt.watchModify
       THEN /\ \E started \in BOOLEAN :
                   sub' = watch(fr[t].opt, fr[t].entryFile, fr[t].cfgFiles,
                                fr[t].opts, started)
            /\ once' = TRUE
       ELSE UNCHANGED <<sub, once>>
    /\ fr' = [fr EXCEPT ![t] = Returned(@, "nil")]
    /\ hist' = [hist EXCEPT ![t].watched = fr[t].opt.watchModify]
    /\ UNCHANGED <<atomicFieldBool, fs, v, mu, dirty, events, written>>

\* The caller of LoadFromFile goes on
LoadFromFile_Return(t) ==
    /\ fr[t].pc = "returned"
    /\ fr[t].caller = "user"
    /\ fr' = [fr EXCEPT ![t] = IdleFrame]
    /\ hist' = [hist EXCEPT ![t] = IdleHist]
    /\ UNCHANGED <<atomicFieldBool, fs, v, mu, dirty, once, sub, events, written>>

\* The steps of a LoadFromFile call of thread t
LoadFromFile_Step(t) ==
    \/ LoadFromFile_Check(t)
    \/ LoadFromFile_Open(t)
    \/ SetConfigType_End(t)
    \/ ReadConfig_Begin(t)
    \/ ReadConfig_End(t)
    \/ GetInclude_Begin(t)
    \/ GetInclude_End(t)
    \/ MergeConfig_Begin(t)
    \/ MergeConfig_End(t)
    \/ LoadFromFile_Watch(t)

----------------------------------------------------------------------------
(* The watch subscription: gutils.WatchFileChanging's goroutine hands the  *)
(* change events of the watched files, one after the other, to the callback *)
(* s.watch gave it.                                                         *)

\* Somebody edits the regular file p in place: it now holds c.  The
\* subscription, when p is one of its files, is sent a change event.
Edit(p, c) ==
    /\ events.n < MaxEdits
    /\ Stat(p).kind = "file" /\ c.kind = "file" /\ c # fs[p]
    /\ fs' = [fs EXCEPT ![p] = c]
    /\ events' = [events EXCEPT
                     !.n = @ + 1,
                     !.pending = IF sub.n > 0 /\ InSeq(p, sub.files)
                                 THEN Append(@, [id |-> events.n + 1, name |-> p])
                                 ELSE @]
    /\ hist' = [u \in Threads |->
                 IF fr[u].pc = "idle" THEN hist[u] ELSE [hist[u] EXCEPT !.stable = FALSE]]
    /\ UNCHANGED <<atomicFieldBool, v, mu, dirty, once, sub, written, fr>>

\* The callback of s.watch if it called the user callback without reloading
HandlerEntryCallbackFirst == "callback"

\* Where the callback of s.watch starts: with s.LoadFromFile(entryFile, opts...)
HandlerEntry == "lff_check"

\* The goroutine takes the next event e and calls the callback with it
Watch_Event(t) ==
    /\ fr[t].pc = "idle"
    /\ sub.n > 0
    /\ events.pending # <<>>
    /\ events' = [events EXCEPT !.pending = Tail(@)]
    /\ fr' = [fr EXCEPT ![t] = [IdleFrame EXCEPT !.pc = HandlerEntry, !.caller = "watch",
                                                 !.entryFile = sub.entryFile,
                                                 !.opts = sub.opts,
                                                 !.e = Head(events.pending)]]
    /\ hist' = [u \in Threads |->
                 IF u = t THEN [IdleHist EXCEPT !.pre = v.config, !.lastMerge = v.config,
                                                !.alone = NoneLoading(t)]
                 ELSE Disturbed(u)]
    /\ UNCHANGED <<atomicFieldBool, fs, v, mu, dirty, once, sub, written>>

\* The callback of s.watch if it called s.LoadFromFile again after an error
AfterReloadRetrying(t) ==
    IF fr[t].err # "nil" /\ hist[t].reloads = 0 THEN [fr[t] EXCEPT !.pc = "lff_check"]
    ELSE IF sub.opt.watchModifyCallback THEN [fr[t] EXCEPT !.pc = "callback"]
    ELSE [fr[t] EXCEPT !.pc = "handled"]

\* The callback after s.LoadFromFile returned err: the error is logged, then
\* opt.watchModifyCallback(e) is called when it is not nil
AfterReload(t) ==
    IF sub.opt.watchModifyCallback THEN [fr[t] EXCEPT !.pc = "callback"]
    ELSE [fr[t] EXCEPT !.pc = "handled"]

\* s.LoadFromFile returns to the callback of s.watch
Watch_Reloaded(t) ==
    /\ fr[t].pc = "returned"
    /\ fr[t].caller = "watch"
    /\ fr' = [fr EXCEPT ![t] = AfterReload(t)]
    /\ hist' = [hist EXCEPT ![t].reloads = @ + 1,
                            ![t].cbs = IF AfterReload(t).pc = "callback" THEN @ + 1 ELSE @]
    /\ UNCHANGED <<atomicFieldBool, fs, v, mu, dirty, once, sub, events, written>>

\* opt.watchModifyCallback(e) returns (it may have called Get)
Callback_Return(t) ==
    /\ fr[t].pc \in {"callback", "got"}
    /\ fr[t].caller = "watch"
    /\ fr' = [fr EXCEPT ![t].pc = "handled"]
    /\ UNCHANGED <<atomicFieldBool, fs, v, mu, dirty, once, sub, events, written, hist>>

\* The callback of s.watch returns: the goroutine is ready for the next event
Watch_Handled(t) ==
    /\ fr[t].pc = "handled"
    /\ events' = [events EXCEPT !.done = Append(@, [e |-> fr[t].e, err |-> fr[t].err,
                                                    reloads |-> hist[t].reloads,
                                                    cbs |-> hist[t].cbs])]
    /\ fr' = [fr EXCEPT ![t] = IdleFrame]
    /\ hist' = [hist EXCEPT ![t] = IdleHist]
    /\ UNCHANGED <<atomicFieldBool, fs, v, mu, dirty, once, sub, written>>

\* The steps of the subscription's goroutine t
Watch_Step(t) ==
    \/ Watch_Event(t)
    \/ LoadFromFile_Step(t)
    \/ Watch_Reloaded(t)
    \/ fr[t].pc = "callback" /\ \E k \in Keys : Get_Begin(t, k)
    \/ Get_End(t)
    \/ Callback_Return(t)
    \/ Watch_Handled(t)

\* The caller cancels the context it holds.  s.watch gives
\* gutils.WatchFileChanging context.Background(), which is never done, and
\* neither LoadFromFile nor an Option takes a context: nothing reads the
\* caller's cancellation.
Cancel ==
    /\ ~events.cancelled
    /\ events' = [events EXCEPT !.cancelled = TRUE]
    /\ UNCHANGED <<atomicFieldBool, fs, v, mu, dirty, once, sub, written, fr, hist>>

----------------------------------------------------------------------------
(* Loading from files: one caller, any file system *)

\* The directory entries each path may hold.  A key set by d/a.yml has
\* value 1, by d/b.yml value 2, by d/c.yml.enc value 3, by d/d.toml value 4.
FileChoices(p) ==
    CASE p = PA -> {Missing, Directory, File("bad", "plain", EmptyStr, EmptyKV)}
                   \cup {File("yml", "plain", inc, KV(S, 1)) :
                            inc \in {EmptyStr, IncA, IncB, IncD}, S \in {{}, {"a"}}}
      [] p = PB -> {Missing, File("bad", "plain", EmptyStr, EmptyKV)}
                   \cup {File("yml", "plain", inc, KV(S, 2)) :
                            inc \in {EmptyStr, IncA, IncC}, S \in {{"a"}, {"a", "b"}}}
      [] p = PC -> {Missing}
                   \cup {File("yml", enc, inc, KV({"b"}, 3)) :
                            enc \in {"plain", "k1"}, inc \in {EmptyStr, IncA}}
      [] p = PD -> {Missing}
                   \cup {File("toml", "plain", inc, KV({"a"}, 4)) :
                            inc \in {EmptyStr, IncA}}

\* The option lists a caller passes
LoadOpts ==
    {Opts(TRUE, "none", FALSE, FALSE), Opts(FALSE, "none", FALSE, FALSE),
     Opts(FALSE, "k1", FALSE, FALSE), Opts(TRUE, "", FALSE, FALSE)}

InitRest ==
    /\ mu = Unlocked
    /\ dirty = {}
    /\ once = FALSE
    /\ sub = NoSub
    /\ events = NoEvents
    /\ written = [k \in Keys |-> {}]
    /\ fr = [t \in Threads |-> IdleFrame]
    /\ hist = [t \in Threads |-> IdleHist]
    /\ atomicFieldBool = ZeroAtomicFieldBool

InitCommon ==
    /\ v = NewViper
    /\ InitRest

Init ==
    /\ fs \in {f \in [Paths -> UNION {FileChoices(p) : p \in Paths}] :
                  \A p \in Paths : f[p] \in FileChoices(p)}
    /\ InitCommon

Next ==
    \/ \E e \in Paths, o \in LoadOpts : LoadFromFile_Call("main", e, o)
    \/ LoadFromFile_Step("main")
    \/ LoadFromFile_Return("main")

Spec == Init /\ [][Next]_vars

----------------------------------------------------------------------------
(* Set and Get from several threads, on an instance that has loaded d/a.yml *)

Callers == {"main", "c1", "c2"}

\* The instance after LoadFromFile("d/a.yml"), the file holding {a: 1}
InitSetGet ==
    /\ fs = [p \in Paths |-> IF p = PA THEN File("yml", "plain", EmptyStr, KV({"a"}, 1))
                              ELSE Missing]
    /\ v = ViperMergeConfig(ViperReadConfig([NewViper EXCEPT !.configType = "yml"],
                                            fs[PA], "yml"),
                            fs[PA], "yml")
    /\ InitRest

NextSetGet ==
    \E t \in Callers :
        \/ \E k \in Keys, x \in Vals : Set_Begin(t, k, x)
        \/ Set_End(t)
        \/ \E k \in Keys : Get_Begin(t, k)
        \/ Get_End(t)
        \/ Get_Return(t)

SpecSetGet == InitSetGet /\ [][NextSetGet]_vars

----------------------------------------------------------------------------
(* One caller that sets keys and reads them back, on an instance that has  *)
(* loaded d/a.yml                                                           *)

NextRoundTrip ==
    \/ \E k \in Keys, x \in Vals : Set_Begin("main", k, x)
    \/ Set_End("main")
    \/ \E k \in Keys : Get_Begin("main", k)
    \/ Get_End("main")
    \/ Get_Return("main")
    \/ \E g \in Getters, k \in Keys : Getter_Begin("main", g, k)
    \/ Getter_End("main")
    \/ Getter_Return("main")

SpecRoundTrip == InitSetGet /\ [][NextRoundTrip]_vars

----------------------------------------------------------------------------
(* Reloads of d/a.yml by one thread while another calls Get.  d/a.yml      *)
(* holds {include: b.yml, a: 1} and d/b.yml holds {a: 2, b: 2}.             *)

ReloadEntry == PA

ReloadOpts == Opts(TRUE, "none", FALSE, FALSE)

InitReload ==
    /\ fs = [p \in Paths |->
                CASE p = PA -> File("yml", "plain", IncB, KV({"a"}, 1))
                  [] p = PB -> File("yml", "plain", EmptyStr, KV({"a", "b"}, 2))
                  [] OTHER -> Missing]
    /\ InitCommon

NextReload ==
    \/ LoadFromFile_Call("main", ReloadEntry, ReloadOpts)
    \/ LoadFromFile_Step("main")
    \/ LoadFromFile_Return("main")
    \/ \E k \in Keys : Get_Begin("c1", k)
    \/ Get_End("c1")
    \/ Get_Return("c1")

SpecReload == InitReload /\ [][NextReload]_vars

----------------------------------------------------------------------------
(* Loads with watch enabled by one thread, the subscription's goroutine,   *)
(* and edits of d/a.yml.  A load by the caller and a reload by the          *)
(* subscription do not overlap here.                                        *)

\* What an edit leaves in d/a.yml: {include: b.yml, a: 1}, or {a: 3}, or
\* text that does not parse
WatchChoices(p) ==
    {File("yml", "plain", IncB, KV({"a"}, 1)),
     File("yml", "plain", EmptyStr, KV({"a"}, 3)),
     File("bad", "plain", EmptyStr, EmptyKV)}

WatchOpts == {Opts(TRUE, "none", TRUE, cb) : cb \in BOOLEAN}

InitWatch ==
    /\ fs = [p \in Paths |->
                CASE p = PA -> File("yml", "plain", IncB, KV({"a"}, 1))
                  [] p = PB -> File("yml", "plain", EmptyStr, KV({"a", "b"}, 2))
                  [] OTHER -> Missing]
    /\ InitCommon

NextWatch ==
    \/ /\ ~Loading("watcher")
       /\ \E e \in {PA, PB}, o \in WatchOpts : LoadFromFile_Call("main", e, o)
    \/ LoadFromFile_Step("main")
    \/ LoadFromFile_Return("main")
    \/ ~Loading("main") /\ Watch_Step("watcher")
    \/ \E c \in WatchChoices(PA) : Edit(PA, c)

SpecWatch == InitWatch /\ [][NextWatch]_vars

\* The same, with a caller that may cancel its context at any time
NextCancel ==
    \/ NextWatch
    \/ Cancel

SpecCancel == InitWatch /\ [][NextCancel]_vars

----------------------------------------------------------------------------
(* A watched load of d/a.yml, which at first includes nothing, and edits of *)
(* d/a.yml and d/b.yml.  A load by the caller and a reload by the           *)
(* subscription do not overlap here.                                        *)

\* What an edit leaves in d/b.yml: {a: 2, b: 2} or {b: 2}
ChainChoices(p) ==
    IF p = PA THEN WatchChoices(p)
    ELSE {File("yml", "plain", EmptyStr, KV({"a", "b"}, 2)),
          File("yml", "plain", EmptyStr, KV({"b"}, 2))}

InitChain ==
    /\ fs = [p \in Paths |->
                CASE p = PA -> File("yml", "plain", EmptyStr, KV({"a"}, 3))
                  [] p = PB -> File("yml", "plain", EmptyStr, KV({"a", "b"}, 2))
                  [] OTHER -> Missing]
    /\ InitCommon

NextChain ==
    \/ /\ ~Loading("watcher")
       /\ LoadFromFile_Call("main", PA, Opts(TRUE, "none", TRUE, FALSE))
    \/ LoadFromFile_Step("main")
    \/ LoadFromFile_Return("main")
    \/ ~Loading("main") /\ Watch_Step("watcher")
    \/ \E p \in {PA, PB} : \E c \in ChainChoices(p) : Edit(p, c)

SpecChain == InitChain /\ [][NextChain]_vars

----------------------------------------------------------------------------
(* Loads of d/a.yml, with watch and without, which includes d/b.yml, which  *)
(* includes d/c.yml.enc, while each of the three files is edited: it stops  *)
(* parsing, or parses again.                                                *)

MergeContent(p) ==
    CASE p = PA -> File("yml", "plain", IncB, KV({"a"}, 1))
      [] p = PB -> File("yml", "plain", IncC, KV({"a", "b"}, 2))
      [] p = PC -> File("yml", "plain", EmptyStr, KV({"b"}, 3))
      [] OTHER -> Missing

MergeChoices(p) == {MergeContent(p), File("bad", "plain", EmptyStr, EmptyKV)}

InitMerge ==
    /\ fs = [p \in Paths |-> MergeContent(p)]
    /\ InitCommon

NextMerge ==
    \/ /\ ~Loading("watcher")
       /\ \E o \in WatchOpts \cup {Opts(TRUE, "none", FALSE, FALSE)} :
             LoadFromFile_Call("main", PA, o)
    \/ LoadFromFile_Step("main")
    \/ LoadFromFile_Return("main")
    \/ ~Loading("main") /\ Watch_Step("watcher")
    \/ \E p \in {PA, PB, PC} : \E c \in MergeChoices(p) : Edit(p, c)

SpecMerge == InitMerge /\ [][NextMerge]_vars

----------------------------------------------------------------------------
(* Loads of a regular file, a directory and a missing path, with and        *)
(* without an empty AES key, by one caller                                  *)

EarlyOpts ==
    {Opts(TRUE, "none", TRUE, FALSE), Opts(TRUE, "", TRUE, FALSE),
     Opts(FALSE, "none", FALSE, FALSE), Opts(FALSE, "", FALSE, FALSE)}

InitEarly ==
    /\ fs = [p \in Paths |->
                CASE p = PA -> File("yml", "plain", EmptyStr, KV({"a"}, 1))
                  [] p = PB -> Directory
                  [] p = PD -> File("toml", "plain", EmptyStr, KV({"a"}, 4))
                  [] OTHER -> Missing]
    /\ InitCommon

NextEarly ==
    \/ \E e \in Paths, o \in EarlyOpts : LoadFromFile_Call("main", e, o)
    \/ LoadFromFile_Step("main")
    \/ LoadFromFile_Return("main")

SpecEarly == InitEarly /\ [][NextEarly]_vars

----------------------------------------------------------------------------
(* Loading from files in two directories: d/a.yml and d/b.yml, and          *)
(* d/sub/a.yml and d/sub/b.yml                                              *)

PSA == Path(<<"d", "sub">>, <<"a", "yml">>)
PSB == Path(<<"d", "sub">>, <<"b", "yml">>)

DirPaths == {PA, PB, PSA, PSB}

\* Include values that name a file of the sub directory: "sub/a.yml", "sub/b.yml"
IncSubA == Path(<<"sub">>, <<"a", "yml">>)
IncSubB == Path(<<"sub">>, <<"b", "yml">>)

\* The directory entries each path may hold.  A key set by d/a.yml has value
\* 1, by d/b.yml value 2, by d/sub/a.yml value 3, by d/sub/b.yml value 4.
DirChoices(p) ==
    CASE p = PA -> {File("yml", "plain", inc, KV({"a"}, 1)) : inc \in {IncB, IncSubB}}
      [] p = PB -> {File("yml", "plain", inc, KV({"b"}, 2)) : inc \in {EmptyStr, IncA}}
      [] p = PSA -> {Missing}
                    \cup {File("yml", "plain", inc, KV({"a", "b"}, 3)) :
                             inc \in {EmptyStr, IncB}}
      [] p = PSB -> {File("yml", "plain", inc, KV({"a", "b"}, 4)) :
                       inc \in {EmptyStr, IncA, IncB, IncSubA}}

InitDirs ==
    /\ fs \in {f \in [DirPaths -> UNION {DirChoices(p) : p \in DirPaths}] :
                  \A p \in DirPaths : f[p] \in DirChoices(p)}
    /\ InitCommon

NextDirs ==
    \/ \E e \in {PA, PSB} : LoadFromFile_Call("main", e, Opts(TRUE, "none", FALSE, FALSE))
    \/ LoadFromFile_Step("main")
    \/ LoadFromFile_Return("main")

SpecDirs == InitDirs /\ [][NextDirs]_vars

----------------------------------------------------------------------------
(* isSettingsFileEncrypted, over the options the option functions build    *)

\* Suffixes given to WithEncryptedFileSuffix: "", ".enc", ".yml", ".yml.enc"
Suffixes == {<<>>, <<"enc">>, <<"yml">>, <<"yml", "enc">>}

\* File names: a.yml, c.yml.enc, a.enc, a.enc.yml, a.toml, and the empty name
Names ==
    {Path(<<"d">>, b) : b \in {<<"a", "yml">>, <<"c", "yml", "enc">>, <<"a", "enc">>,
                                <<"a", "enc", "yml">>, <<"a", "toml">>, <<>>}}

\* The option built from WithAesEncrypt(aes), when aes is not "none", and
\* the WithEncryptedFileSuffix options of `sfxs` (none, or one)
BuiltOpt(aes, sfxs) ==
    LET o == applyOptfs(fillDefault, Opts(FALSE, aes, FALSE, FALSE)).opt
    IN  IF sfxs = <<>> THEN o ELSE WithEncryptedFileSuffix(o, sfxs[1])

InitEncrypted ==
    /\ fs = [p \in Paths |-> Missing]
    /\ \E aes \in {"none", "k1", "k2"}, name \in Names,
          sfx \in {<<>>} \cup {<<x>> : x \in Suffixes} :
          fr = [t \in Threads |->
                  IF t = "main"
                  THEN [IdleFrame EXCEPT !.opts = Opts(FALSE, aes, FALSE, FALSE),
                                         !.opt = BuiltOpt(aes, sfx),
                                         !.curFpath = name]
                  ELSE IdleFrame]
    /\ v = NewViper
    /\ mu = Unlocked
    /\ dirty = {}
    /\ once = FALSE
    /\ sub = NoSub
    /\ events = NoEvents
    /\ written = [k \in Keys |-> {}]
    /\ hist = [t \in Threads |-> IdleHist]
    /\ atomicFieldBool = ZeroAtomicFieldBool

\* isSettingsFileEncrypted(opt, fname) is called and returns
IsEncrypted_Call(t) ==
    /\ fr[t].pc = "idle"
    /\ fr' = [fr EXCEPT ![t].pc = "checked",
                        ![t].ret = isSettingsFileEncrypted(fr[t].opt, fr[t].curFpath)]
    /\ UNCHANGED <<atomicFieldBool, fs, v, mu, dirty, once, sub, events, written, hist>>

\* The caller goes on, and may call again
IsEncrypted_Return(t) ==
    /\ fr[t].pc = "checked"
    /\ fr' = [fr EXCEPT ![t].pc = "idle", ![t].ret = FALSE]
    /\ UNCHANGED <<atomicFieldBool, fs, v, mu, dirty, once, sub, events, written, hist>>

NextEncrypted ==
    \/ IsEncrypted_Call("main")
    \/ IsEncrypted_Return("main")

SpecEncrypted == InitEncrypted /\ [][NextEncrypted]_vars

----------------------------------------------------------------------------
(* LoadFromConfigServerWithRawYaml *)

\* The keys of the property sources of a config-server response
RemoteKeys == {"raw", "profile"}

\* What a property source holds under a key: nothing, a value that is not a
\* string, or a string: YAML text ({a: 2, b: 2} or {b: 3}) or other text
Absent == [kind |-> "absent"]
NotString == [kind |-> "int"]
RemoteVals ==
    {Absent, NotString,
     File("yml", "plain", EmptyStr, KV({"a", "b"}, 2)),
     File("yml", "plain", EmptyStr, KV({"b"}, 3)),
     File("bad", "plain", EmptyStr, EmptyKV)}

\* At most MaxSources property sources in a response
MaxSources == 2

\* RemoteCfg.Sources after Fetch
Responses ==
    UNION {[1..n -> [RemoteKeys -> RemoteVals]] : n \in 0..MaxSources}

\* SpringConfigServer.Get if it kept the value of the last source that has the key
RECURSIVE SrvGetLast(_, _)
SrvGetLast(sources, name) ==
    IF sources = <<>> THEN [ok |-> FALSE, val |-> Absent]
    ELSE IF sources[Len(sources)][name] # Absent
         THEN [ok |-> TRUE, val |-> sources[Len(sources)][name]]
         ELSE SrvGetLast(SubSeq(sources, 1, Len(sources) - 1), name)

\* SpringConfigServer.Get(name): the sources in order, the first that has the key
RECURSIVE SrvGet(_, _)
SrvGet(sources, name) ==
    IF sources = <<>> THEN [ok |-> FALSE, val |-> Absent]
    ELSE IF Head(sources)[name] # Absent THEN [ok |-> TRUE, val |-> Head(sources)[name]]
         ELSE SrvGet(Tail(sources), name)

\* What Fetch gives when the request failed: an error, and the RemoteCfg of
\* NewSpringConfigServer, which has no source
FetchError == [ok |-> FALSE, sources |-> <<>>]

\* The loads if they went on with the empty RemoteCfg after a failed Fetch
AfterFetchIgnoringError(f, resp) ==
    [f EXCEPT !.pc = IF f.name = "" THEN "cs_map" ELSE "raw_get", !.srv = resp.sources]

\* After srv.Fetch(): its error is returned wrapped; else
\* LoadFromConfigServer goes on to srv.Map and
\* LoadFromConfigServerWithRawYaml to srv.GetString(key)
AfterFetch(f, resp) ==
    IF ~resp.ok THEN Returned(f, "fetch")
    ELSE [f EXCEPT !.pc = IF f.name = "" THEN "cs_map" ELSE "raw_get",
                   !.srv = resp.sources]

\* srv.Map(s.v.Set): the sources in order, v.Set(key, val) for every key of each
RECURSIVE MapSources(_, _)
MapSources(st, sources) ==
    IF sources = <<>> THEN st
    ELSE LET src == Head(sources)
             has == {k \in DOMAIN src : src[k] # Absent}
         IN  MapSources([st EXCEPT !.override =
                             [k \in DOMAIN @ \cup has |->
                                 IF k \in has THEN src[k] ELSE @[k]]],
                        Tail(sources))

\* s.LoadFromConfigServer(url, app, profile, label)
LoadFromConfigServer_Call(t) ==
    /\ fr[t].pc = "idle"
    /\ fr' = [fr EXCEPT ![t].pc = "raw_fetch"]
    /\ hist' = [hist EXCEPT ![t] = [IdleHist EXCEPT !.pre = v.config,
                                                   !.lastMerge = v.config]]
    /\ UNCHANGED <<atomicFieldBool, fs, v, mu, dirty, once, sub, events, written>>

\* srv.Map(s.v.Set) (no lock), return nil
LoadFromConfigServer_Map(t) ==
    /\ fr[t].pc = "cs_map"
    /\ v' = MapSources(v, fr[t].srv)
    /\ fr' = [fr EXCEPT ![t] = Returned(@, "nil")]
    /\ UNCHANGED <<atomicFieldBool, fs, mu, dirty, once, sub, events, written, hist>>

\* s.LoadFromConfigServerWithRawYaml(url, app, profile, label, key)
LoadRaw_Call(t, key) ==
    /\ fr[t].pc = "idle"
    /\ fr' = [fr EXCEPT ![t].pc = "raw_fetch", ![t].name = key]
    /\ hist' = [hist EXCEPT ![t] = [IdleHist EXCEPT !.pre = v.config,
                                                   !.lastMerge = v.config]]
    /\ UNCHANGED <<atomicFieldBool, fs, v, mu, dirty, once, sub, events, written>>

\* srv.Fetch(): an error, or the response is in srv.RemoteCfg
LoadRaw_Fetch(t) ==
    /\ fr[t].pc = "raw_fetch"
    /\ \E resp \in {FetchError} \cup {[ok |-> TRUE, sources |-> r] : r \in Responses} :
          /\ fr' = [fr EXCEPT ![t] = AfterFetch(@, resp)]
          /\ hist' = [hist EXCEPT ![t].fetched = IF resp.ok THEN "ok" ELSE "error"]
    /\ UNCHANGED <<atomicFieldBool, fs, v, mu, dirty, once, sub, events, written>>

\* srv.GetString(key): val.(string) panics on a value that is not a string;
\* then inside s.v.SetConfigType("yaml") (no lock)
LoadRaw_GetString(t) ==
    /\ fr[t].pc = "raw_get"
    /\ LET got == SrvGet(fr[t].srv, fr[t].name)
       IN  IF ~got.ok
           THEN /\ fr' = [fr EXCEPT ![t] = Returned(@, "no key")]
                /\ UNCHANGED dirty
           ELSE IF got.val.kind # "file"
           THEN /\ fr' = [fr EXCEPT ![t].pc = "panic"]
                /\ UNCHANGED dirty
           ELSE /\ fr' = [fr EXCEPT ![t].pc = "raw_setType_in"]
                /\ dirty' = Enter(t, "SetConfigType")
    /\ UNCHANGED <<atomicFieldBool, fs, v, mu, once, sub, events, written, hist>>

\* s.v.SetConfigType("yaml") returns
LoadRaw_SetConfigType_End(t) ==
    /\ fr[t].pc = "raw_setType_in"
    /\ \E ty \in (IF t \in dirty THEN {"yaml", "garbled"} ELSE {"yaml"}) :
          v' = [v EXCEPT !.configType = ty]
    /\ fr' = [fr EXCEPT ![t].pc = "raw_read"]
    /\ dirty' = dirty \ {t}
    /\ UNCHANGED <<atomicFieldBool, fs, mu, once, sub, events, written, hist>>

\* Inside s.v.ReadConfig(bytes.NewReader([]byte(raw))) (no lock)
LoadRaw_ReadConfig_Begin(t) ==
    /\ fr[t].pc = "raw_read"
    /\ fr' = [fr EXCEPT ![t].pc = "raw_read_in"]
    /\ dirty' = Enter(t, "ReadConfig")
    /\ UNCHANGED <<atomicFieldBool, fs, v, mu, once, sub, events, written, hist>>

\* s.v.ReadConfig(raw) returns; an error is returned wrapped, else nil
LoadRaw_ReadConfig_End(t) ==
    /\ fr[t].pc = "raw_read_in"
    /\ \E ty \in TypeSeen(t) :
          LET raw == SrvGet(fr[t].srv, fr[t].name).val
          IN  /\ v' = ViperReadConfig(v, raw, ty)
              /\ fr' = [fr EXCEPT ![t] =
                     IF Unmarshal(raw, ty).ok THEN Returned(@, "nil")
                     ELSE Returned(@, "load config")]
    /\ dirty' = dirty \ {t}
    /\ UNCHANGED <<atomicFieldBool, fs, mu, once, sub, events, written, hist>>

\* The caller of LoadFromConfigServer or LoadFromConfigServerWithRawYaml
\* goes on
LoadRaw_Return(t) ==
    /\ fr[t].pc = "returned"
    /\ fr[t].entryFile = EmptyStr
    /\ fr' = [fr EXCEPT ![t] = IdleFrame]
    /\ hist' = [hist EXCEPT ![t] = IdleHist]
    /\ UNCHANGED <<atomicFieldBool, fs, v, mu, dirty, once, sub, events, written>>

\* One caller, on an instance that has loaded d/a.yml
NextRemote ==
    \/ \E key \in RemoteKeys : LoadRaw_Call("main", key)
    \/ LoadRaw_Fetch("main")
    \/ LoadRaw_GetString("main")
    \/ LoadRaw_SetConfigType_End("main")
    \/ LoadRaw_ReadConfig_Begin("main")
    \/ LoadRaw_ReadConfig_End("main")
    \/ LoadRaw_Return("main")

SpecRemote == InitSetGet /\ [][NextRemote]_vars

\* The same caller, which calls LoadFromConfigServer as well, as long as no
\* raw YAML has replaced what d/a.yml gave; once it has, it loads no raw YAML
\* any more
NextFetch ==
    \/ DOMAIN v.override = Keys /\ NextRemote
    \/ v.config.kv = KV({"a"}, 1) /\ LoadFromConfigServer_Call("main")
    \/ LoadRaw_Fetch("main")
    \/ LoadFromConfigServer_Map("main")
    \/ LoadRaw_Return("main")

SpecFetch == InitSetGet /\ [][NextFetch]_vars

----------------------------------------------------------------------------
(* Two threads that load at the same time, one d/a.yml, which holds        *)
(* {a: 1}, the other d/b.yml, which holds {a: 2, b: 2}                      *)

Loaders == {"main", "c1"}

EntryOf(t) == IF t = "main" THEN PA ELSE PB

InitLoads ==
    /\ fs = [p \in Paths |->
                CASE p = PA -> File("yml", "plain", EmptyStr, KV({"a"}, 1))
                  [] p = PB -> File("yml", "plain", EmptyStr, KV({"a", "b"}, 2))
                  [] OTHER -> Missing]
    /\ InitCommon

NextLoads ==
    \E t \in Loaders :
        \/ LoadFromFile_Call(t, EntryOf(t), ReloadOpts)
        \/ LoadFromFile_Step(t)
        \/ LoadFromFile_Return(t)

SpecLoads == InitLoads /\ [][NextLoads]_vars

----------------------------------------------------------------------------
(* Goroutines calling SetTrue, SetFalse and True of one AtomicFieldBool *)

NextAtomic ==
    \E t \in Threads :
        \/ \E m \in AtomicMethods : AtomicFieldBool_Call(t, m)
        \/ SetTrue_Store(t)
        \/ SetFalse_Store(t)
        \/ True_Load(t)
        \/ AtomicFieldBool_Return(t)

SpecAtomic == InitSetGet /\ [][NextAtomic]_vars

----------------------------------------------------------------------------
(* What the file system says, for the claims about LoadFromFile *)

\* The document a file holds
Doc(p) == [kv |-> Bytes(p).kv, inc |-> Bytes(p).inc]

\* The include chain of the file system that starts with `chain`: each file's
\* include value, joined to `dir`, names the next, up to an empty value or a
\* path met before
RECURSIVE IncludeChain(_, _)
IncludeChain(dir, chain) ==
    LET inc == Doc(chain[Len(chain)]).inc
    IN  IF inc = EmptyStr \/ InSeq(Join(dir, inc), chain) THEN chain
        ELSE IncludeChain(dir, Append(chain, Join(dir, inc)))

ChainOf(entry) == IncludeChain(Dir(entry), <<entry>>)

Acyclic(entry) == Doc(ChainOf(entry)[Len(ChainOf(entry))]).inc = EmptyStr

\* The value of key k in the first file of `chain` that defines it
RECURSIVE FirstDefined(_, _)
FirstDefined(chain, k) ==
    IF chain = <<>> THEN Nil
    ELSE IF Doc(Head(chain)).kv[k] # Nil THEN Doc(Head(chain)).kv[k]
    ELSE FirstDefined(Tail(chain), k)

\* Thread t is back from LoadFromFile, with error e
Back(t) == fr[t].pc = "returned"
Succeeded(t) == Back(t) /\ fr[t].err = "nil"
Failed(t) == Back(t) /\ fr[t].err # "nil"

----------------------------------------------------------------------------
(* Claims *)

\* C1: for an acyclic include chain [f0..fn], a successful LoadFromFile(f0)
\* resolves exactly that chain, merges its files one at a time from fn down
\* to f0, and leaves every key with the value of the first file of the chain
\* that defines it; the keys of the store are the union of the files' keys.
C1_EntryWinsOverIncluded ==
    \A t \in Threads :
        (Succeeded(t) /\ Acyclic(fr[t].entryFile)) =>
            /\ fr[t].cfgFiles = ChainOf(fr[t].entryFile)
            /\ hist[t].merged = Reverse(fr[t].cfgFiles)
            /\ \A k \in Keys : ViperGet(v, k) = FirstDefined(fr[t].cfgFiles, k)
            /\ {k \in Keys : ViperGet(v, k) # Nil}
                 = UNION {{k \in Keys : Doc(fr[t].cfgFiles[n]).kv[k] # Nil} :
                             n \in 1..Len(fr[t].cfgFiles)}

\* C1's case: a chain of three files loaded, with a key the entry file and
\* an included file both set, and a key only included files set.
C1_Witness ==
    \E t \in Threads :
        /\ Succeeded(t) /\ Acyclic(fr[t].entryFile)
        /\ Len(fr[t].cfgFiles) = 3
        /\ Doc(fr[t].cfgFiles[1]).kv["a"] = 1 /\ Doc(fr[t].cfgFiles[2]).kv["a"] = 2
        /\ Doc(fr[t].cfgFiles[1]).kv["b"] = Nil /\ Doc(fr[t].cfgFiles[2]).kv["b"] = 2
        /\ Doc(fr[t].cfgFiles[3]).kv["b"] = 3
        /\ ViperGet(v, "a") = 1 /\ ViperGet(v, "b") = 2


\* Every file of the include chain of `entry` is a regular file that holds a
\* well-formed document, readable with the options `opts`
Readable(entry, opts) ==
    /\ applyOptfs(fillDefault, opts).ok
    /\ \A n \in 1..Len(ChainOf(entry)) :
          LET p == ChainOf(entry)[n]
              in == Reader(applyOptfs(fillDefault, opts).opt, p)
          IN  Stat(p).kind = "file" /\ in.ok /\ in.bytes.enc = "plain"
              /\ in.bytes.fmt # "bad"

\* C2: over a self-referencing or cyclic include graph of existing files the
\* include loop ends (it reads no path twice, so at most as many files as
\* there are), LoadFromFile returns no error, no path is twice in the chain,
\* and exactly the files visited before the repeated path are merged.
C2_CyclicChainLoads ==
    \A t \in Threads :
        /\ NoDup(fr[t].cfgFiles)
        /\ NoDup(hist[t].reads) /\ Len(hist[t].reads) <= Cardinality(Paths)
        /\ (Back(t) /\ ~Acyclic(fr[t].entryFile)
              /\ Readable(fr[t].entryFile, fr[t].opts)) =>
                /\ fr[t].err = "nil"
                /\ fr[t].cfgFiles = ChainOf(fr[t].entryFile)
                /\ hist[t].reads = fr[t].cfgFiles
                /\ hist[t].merged = Reverse(fr[t].cfgFiles)


\* C9 as stated: when LoadFromFile returns an error, the store is as the last
\* successful merge of the call left it, and as it was before the call when
\* no merge of the call succeeded.
C9_FailedLoadKeepsLastMerge ==
    \A t \in Threads : Failed(t) => v.config = hist[t].lastMerge

\* The config type LoadFromFile sets before it reads p
TypeOf(opt, p) == Ext(TrimSuffix(p.base, opt.encryptedSuffix))

\* What s.ReadConfig leaves in the config layer after reading p
ReadDoc(opt, p) ==
    IF Reader(opt, p).ok THEN Unmarshal(Reader(opt, p).bytes, TypeOf(opt, p)).cfg
    ELSE EmptyConfig

\* The documents of the files of `merged`, overlaid on `base` one after the other
RECURSIVE Overlay(_, _)
Overlay(merged, base) ==
    IF merged = <<>> THEN base
    ELSE Overlay(Tail(merged), MergeMaps(Doc(Head(merged)), base))

\* C9, amended: when LoadFromFile returns an error nothing is rolled back.
\* The store is as it was before the call only if the call read no file;
\* else the include loop has replaced its content by the last file it read
\* (emptied it if that file did not parse), and the merges that succeeded
\* are overlaid on that.
C9_FailedLoadKeepsLastStep ==
    \A t \in Threads :
        Failed(t) =>
            v.config = IF hist[t].reads = <<>> THEN hist[t].pre
                       ELSE Overlay(hist[t].merged,
                                    ReadDoc(fr[t].opt, hist[t].reads[Len(hist[t].reads)]))

\* C9's case: a load fails in its merge phase after a merge succeeded, on a
\* store that held something else before.
C9_Witness ==
    \E t \in Threads :
        /\ Failed(t) /\ hist[t].merged # <<>> /\ Len(hist[t].reads) = 2
        /\ hist[t].pre # EmptyConfig /\ v.config # hist[t].pre

\* C10: without WithEnableInclude the chain is the entry file alone and only
\* the entry file is read and merged.
C10_IncludeNeedsOption ==
    \A t \in Threads :
        ~fr[t].opts.include =>
            /\ \A n \in 1..Len(fr[t].cfgFiles) : fr[t].cfgFiles[n] = fr[t].entryFile
            /\ \A n \in 1..Len(hist[t].reads) : hist[t].reads[n] = fr[t].entryFile
            /\ \A n \in 1..Len(hist[t].merged) : hist[t].merged[n] = fr[t].entryFile


\* C5: with threads calling Set and Get concurrently, no Set overlaps another
\* Set or a Get inside the store, and a Get(k) returns a value some completed
\* Set(k, _) wrote, or the initial value of k when none has completed; never
\* a partially written value.
C5_SetGetLinearizable ==
    /\ \A t, u \in Threads :
           t # u /\ OpOf(fr[t].pc) = "Set" => OpOf(fr[u].pc) \notin {"Set", "Get"}
    /\ \A t \in Threads :
           fr[t].pc = "got" =>
               /\ fr[t].got # Torn
               /\ fr[t].got \in written[fr[t].key] \cup {v.config.kv[fr[t].key]}

\* A Get has returned the value of one of two completed Sets of its key,
\* while one thread is inside Set and another waits for it
C5_Witness ==
    \E t, u \in Threads :
        /\ fr[t].pc = "got" /\ fr[t].key = "a" /\ fr[t].got \in written["a"]
        /\ Cardinality(written["a"]) >= 2
        /\ fr[u].pc = "set_in" /\ fr[u].key = "a" /\ fr[u].val # fr[t].got


\* C3: a Get that runs concurrently with a reload returns the value of the
\* merged view before the reload or of the merged view after it, never one
\* of an intermediate state of the store.  (The files do not change here, so
\* the merged views are the empty one, before the first load, and that of the
\* chain of the entry file.)
C3_GetSeesMergedView ==
    \A t \in Threads :
        fr[t].pc = "got" =>
            fr[t].got \in {EmptyConfig.kv[fr[t].key],
                           FirstDefined(ChainOf(ReloadEntry), fr[t].key)}

\* C4: every access to the store happens under the instance's lock, a read
\* under the read or the write lock and a mutation under the write lock, and
\* no thread mutates the store while another reads or mutates it.
C4_StoreAccessUnderLock ==
    \A t \in Threads :
        LET op == OpOf(fr[t].pc)
        IN  /\ Writes(op) # {} => mu.w = t
            /\ op # "none" /\ Writes(op) = {} => t \in mu.r \/ mu.w = t
            /\ Writes(op) # {} => \A u \in Threads \ {t} : OpOf(fr[u].pc) = "none"


\* C6: over any sequence of LoadFromFile calls with watch enabled, by callers
\* and by the watch callback, with any entry file, at most one subscription
\* is ever started, and once the first arming attempt was made the watched
\* paths, the reload target and the callback never change.
C6_AtMostOneSubscription ==
    /\ [](sub.n <= 1)
    /\ [][once => sub' = sub]_vars

\* The subscription has handled an event, and a caller is back from a
\* successful load with watch enabled of another entry file, other paths and
\* another callback than the subscription's
C6_Witness ==
    /\ sub.n = 1 /\ events.done # <<>>
    /\ Succeeded("main") /\ fr["main"].opt.watchModify
    /\ fr["main"].entryFile # sub.entryFile
    /\ fr["main"].cfgFiles # sub.files
    /\ fr["main"].opt.watchModifyCallback # sub.opt.watchModifyCallback

\* The handler of a change event
Handler(t) == fr[t].caller = "watch"

InCallback(t) == Handler(t) /\ fr[t].pc \in {"callback", "get_in", "got"}

\* C7: for each change event exactly one reload runs, of the entry file and
\* with the options of the first arming; the user callback, when not nil, is
\* called once with the event and only after the reload returned, so that a
\* Get from the callback returns the value of the merged view of the files
\* (when the reload succeeded, and no file and no other load changed the
\* store's sources since the event was taken).
C7_OneReloadThenCallback ==
    /\ \A n \in 1..Len(events.done) :
           /\ events.done[n].reloads = 1
           /\ events.done[n].cbs = IF sub.opt.watchModifyCallback THEN 1 ELSE 0
    /\ NoDup([n \in 1..Len(events.done) |-> events.done[n].e])
    /\ \A t \in Threads :
           Handler(t) =>
               /\ fr[t].entryFile = sub.entryFile /\ fr[t].opts = sub.opts
               /\ fr[t].e.id \in 1..events.n
               /\ Loading(t) => hist[t].reloads = 0 /\ hist[t].cbs = 0
               /\ InCallback(t) => hist[t].reloads = 1 /\ hist[t].cbs = 1
               /\ fr[t].pc = "got" /\ fr[t].err = "nil"
                     /\ hist[t].alone /\ hist[t].stable =>
                      fr[t].got = FirstDefined(ChainOf(sub.entryFile), fr[t].key)

\* A Get from the callback returns 3, the value d/a.yml was edited to, after
\* a reload of a store that had a = 1
C7_Witness ==
    \E t \in Threads :
        /\ Handler(t) /\ fr[t].pc = "got" /\ fr[t].err = "nil"
        /\ hist[t].alone /\ hist[t].stable
        /\ fr[t].key = "a" /\ fr[t].got = 3 /\ hist[t].pre.kv["a"] = 1

C11_ParsedWithOwnType ==
    \A t \in Threads :
        /\ fr[t].pc = "readConfig_in" => v.configType = TypeOf(fr[t].opt, fr[t].curFpath)
        /\ fr[t].pc = "merge_in" =>
               v.configType = TypeOf(fr[t].opt, MergeFile(fr[t].cfgFiles, fr[t].i))

\* C12: every path after the first in the resolved chain is the include
\* value of the file before it joined to the directory of the entry file,
\* whatever the directory of the file that holds the include.
C12_IncludeRelativeToEntryDir ==
    \A t \in Threads :
        \A n \in 2..Len(fr[t].cfgFiles) :
            hist[t].stable /\ InSeq(fr[t].cfgFiles[n - 1], hist[t].reads) =>
                fr[t].cfgFiles[n] =
                    Join(Dir(fr[t].entryFile), Doc(fr[t].cfgFiles[n - 1]).inc)

\* The entry d/a.yml includes sub/b.yml, whose include is b.yml: the third
\* path of the chain is d/b.yml, and d/sub/b.yml is not met twice
C12_Witness ==
    /\ Succeeded("main") /\ fr["main"].entryFile = PA
    /\ fr["main"].cfgFiles = <<PA, PSB, PB>>
    /\ Doc(PSB).inc = IncB

\* C13: isSettingsFileEncrypted(opt, name) is true iff an AES key was given,
\* the suffix is not empty and the name ends with it; it is false when no key
\* was given and when the suffix is empty; and the call changes nothing, the
\* option and the name included.
C13_EncryptedIffKeyAndSuffix ==
    /\ [](\A t \in Threads :
             fr[t].pc = "checked" =>
                 /\ fr[t].ret = (/\ fr[t].opts.aes # "none"
                                 /\ fr[t].opt.encryptedSuffix # <<>>
                                 /\ HasSuffix(fr[t].curFpath.base,
                                              fr[t].opt.encryptedSuffix))
                 /\ fr[t].opts.aes = "none" => ~fr[t].ret
                 /\ fr[t].opt.encryptedSuffix = <<>> => ~fr[t].ret)
    /\ [][\A t \in Threads :
             fr[t].pc = "idle" /\ fr'[t].pc = "checked" =>
                 /\ fr'[t].opt = fr[t].opt /\ fr'[t].curFpath = fr[t].curFpath
                 /\ UNCHANGED <<atomicFieldBool, fs, v, mu, dirty, once, sub, events, written, hist>>]_vars

\* c.yml.enc is encrypted for a key and the suffix ".yml.enc" given with
\* WithEncryptedFileSuffix
C13_Witness ==
    /\ fr["main"].pc = "checked" /\ fr["main"].ret
    /\ fr["main"].opts.aes = "k2"
    /\ fr["main"].opt.encryptedSuffix = <<"yml", "enc">>
    /\ fr["main"].curFpath.base = <<"c", "yml", "enc">>

\* C14: once the watch is armed, a change on disk of any file of the chain
\* the latest load resolved delivers a change event (which triggers a
\* reload), also when the file entered the chain through a reload.
C14_ChainFilesAreWatched ==
    [][\A t \in Threads, p \in Paths :
          /\ sub.n = 1 /\ Succeeded(t) /\ hist[t].stable
          /\ InSeq(p, fr[t].cfgFiles) /\ fs'[p] # fs[p]
          => /\ Len(events'.pending) = Len(events.pending) + 1
             /\ events'.pending[Len(events'.pending)].name = p]_vars

\* C15: after Set(k, x), and with no other value written to k, Get(k)
\* returns x, GetInt64(k) the integer x and GetDuration(k) a duration of x,
\* and IsSet(k) is true; IsSet of a key never set nor loaded is false.
C15_SetGetRoundTrip ==
    \A t \in Threads, x \in Vals :
        LET k == fr[t].key
        IN  /\ written[k] = {x} =>
                  /\ fr[t].pc = "got" => fr[t].got = x
                  /\ fr[t].pc = "gotInt64" => fr[t].got = x
                  /\ fr[t].pc = "gotDuration" => fr[t].got = Duration(x)
                  /\ fr[t].pc = "gotIsSet" => fr[t].ret
            /\ fr[t].pc = "gotIsSet" /\ written[k] = {} /\ v.config.kv[k] = Nil =>
                  ~fr[t].ret

\* GetDuration("a") has returned a duration of 2 after Set("a", 2), the file
\* having a = 1
C15_Witness ==
    /\ fr["main"].pc = "gotDuration" /\ fr["main"].key = "a"
    /\ written["a"] = {2} /\ fr["main"].got = Duration(2)
    /\ v.config.kv["a"] = 1

\* C16: after a successful LoadFromConfigServerWithRawYaml the config layer
\* is the YAML document of the string under `key` in the first property
\* source, in response order, that has `key`; what was loaded before is gone.
C16_RawYamlReplaces ==
    \A t \in Threads :
        Succeeded(t) /\ fr[t].name # "" =>
            \E n \in 1..Len(fr[t].srv) :
                /\ fr[t].srv[n][fr[t].name] # Absent
                /\ \A m \in 1..(n - 1) : fr[t].srv[m][fr[t].name] = Absent
                /\ fr[t].srv[n][fr[t].name].kind = "file"
                /\ v.config = [kv |-> fr[t].srv[n][fr[t].name].kv,
                               inc |-> fr[t].srv[n][fr[t].name].inc]

\* The first source lacks the key and the second holds {b: 3} under it: the
\* load leaves b = 3 and no a, in a store that had a = 1
C16_Witness ==
    /\ Succeeded("main") /\ fr["main"].name = "raw" /\ Len(fr["main"].srv) = 2
    /\ fr["main"].srv[1]["raw"] = Absent /\ fr["main"].srv[1]["profile"] # Absent
    /\ hist["main"].pre.kv["a"] = 1
    /\ v.config.kv = KV({"b"}, 3)

\* The merged view of the chain of `entry`
MergedView(entry) == [k \in Keys |-> FirstDefined(ChainOf(entry), k)]

\* C17: when two loads of one instance run at the same time, each resolves
\* the chain of its own entry file, and once both have returned without
\* error the store holds the merged result of one of the two, never a
\* mixture.
C17_LastWriterWins ==
    \A t, u \in Threads :
        t # u /\ Succeeded(t) /\ Succeeded(u) =>
            /\ fr[t].cfgFiles = ChainOf(fr[t].entryFile)
            /\ v.config.kv \in {MergedView(fr[t].entryFile), MergedView(fr[u].entryFile)}

\* C18: the watch subscription runs under the caller's cancellation signal:
\* once the caller has cancelled, the goroutine takes no further change event
\* (so no reload and no callback starts), and the one-shot latch stays set, so
\* that a later LoadFromFile with watch enabled starts no new subscription.
C18_CancelStopsEventLoop ==
    [][/\ events.cancelled =>
              \A t \in Threads : fr[t].caller # "watch" => fr'[t].caller # "watch"
       /\ once => once' /\ sub'.n = sub.n]_vars

\* C19: an AtomicFieldBool is false in its zero state, and under any
\* interleaving of SetTrue, SetFalse and True calls of any threads, True()
\* returns true iff the latest SetTrue/SetFalse that took effect before its
\* load was SetTrue; v is only ever 0 or 1.
C19_AtomicFieldBoolLinearizable ==
    /\ atomicFieldBool.v \in {0, 1}
    /\ atomicFieldBool.last = "none" => ~True(atomicFieldBool)
    /\ \A t \in Threads :
           fr[t].pc = "true_done" =>
               (fr[t].ret <=> atomicFieldBool.seen[t] = "SetTrue")

\* A True() that returned true while another thread is about to store false,
\* after a SetFalse took effect earlier
C19_Witness ==
    \E t, u, w \in Threads :
        /\ fr[t].pc = "true_done" /\ fr[t].ret
        /\ fr[u].pc = "setFalse_call"
        /\ fr[w].pc = "true_done" /\ ~fr[w].ret /\ atomicFieldBool.seen[w] = "SetFalse"

\* The files of cfgFiles after the i-th, last first: what loadConfigFiles has
\* gone through when i files are left
Behind(cfgFiles, i) == Reverse(SubSeq(cfgFiles, i + 1, Len(cfgFiles)))

\* C20: in the merge phase over the chain [f0..fn], the files are merged one
\* at a time from fn down; when merging fi fails (open, AES wrapper or parse)
\* loadConfigFiles returns the error at once: exactly the files after fi have
\* been merged and the store keeps what their merge left, fi is the last file
\* opened and no file before it is opened or merged, and LoadFromFile returns
\* the error without going on to s.watch, which only a call that merged the
\* whole chain reaches.
C20_MergeFailureStopsAtOnce ==
    \A t \in Threads :
        /\ fr[t].pc = "merge" =>
               /\ hist[t].merged = Behind(fr[t].cfgFiles, fr[t].i)
               /\ hist[t].opened = hist[t].merged
        /\ fr[t].pc = "merge_in" =>
               /\ hist[t].merged = Behind(fr[t].cfgFiles, fr[t].i)
               /\ hist[t].opened = Behind(fr[t].cfgFiles, fr[t].i - 1)
        /\ fr[t].pc = "lff_watch" => hist[t].merged = Reverse(fr[t].cfgFiles)
        /\ (Failed(t) /\ fr[t].i >= 1) =>
               /\ fr[t].err \in {"open", "decrypt", "merge config"}
               /\ hist[t].merged = Behind(fr[t].cfgFiles, fr[t].i)
               /\ hist[t].opened = Behind(fr[t].cfgFiles, fr[t].i - 1)
               /\ hist[t].merged # <<>> => v.config = hist[t].lastMerge
               /\ ~hist[t].watched
        /\ hist[t].watched =>
               fr[t].err = "nil" /\ hist[t].merged = Reverse(fr[t].cfgFiles)

\* The merge of the middle file of a chain of three failed: the last file is
\* merged and stays so, the first was not opened
C20_Witness ==
    \E t \in Threads :
        /\ Failed(t) /\ fr[t].opt.watchModify
        /\ Len(fr[t].cfgFiles) = 3 /\ fr[t].i = 2
        /\ hist[t].merged = <<PC>> /\ hist[t].opened = <<PC, PB>>
        /\ v.config.kv = [k \in Keys |-> IF k = "b" THEN 3 ELSE Nil]

\* The entry path of thread t's call is missing or not a regular file, or the
\* call passes WithAesEncrypt an empty key
BadCall(t) == Stat(fr[t].entryFile).kind # "file" \/ fr[t].opts.aes = ""

\* C21: when the entry path is missing or is not a regular file, or
\* WithAesEncrypt is given an empty key, LoadFromFile returns an error before
\* it touches anything: the call goes from its checks straight to the error
\* return, it reads, opens and merges no file, and the step that checks leaves
\* the store's content and type, the watch latch and the subscription as they
\* were.
C21_EarlyErrorTouchesNothing ==
    /\ [](\A t \in Threads :
             (fr[t].pc # "idle" /\ fr[t].caller = "user" /\ BadCall(t)) =>
                 /\ fr[t].pc \in {"lff_check", "returned"}
                 /\ Back(t) => fr[t].err \in {"stat", "not a file", "apply options"}
                 /\ hist[t].reads = <<>> /\ hist[t].opened = <<>> /\ ~hist[t].watched
                 /\ v.config = hist[t].pre)
    /\ [][\A t \in Threads :
             fr[t].pc = "lff_check" =>
                 /\ v' = v /\ once' = once /\ sub' = sub
                 /\ (BadCall(t) /\ fr'[t] # fr[t]) => Failed(t)']_vars

\* An empty AES key made a call fail at once, on an instance whose store an
\* earlier load filled from d/d.toml and whose watch is armed
C21_Witness ==
    \E t \in Threads :
        /\ Failed(t) /\ fr[t].err = "apply options" /\ fr[t].opts.watch
        /\ once /\ sub.n = 1
        /\ v.configType = "toml" /\ v.config.kv = KV({"a"}, 4)

\* C22: LoadFromConfigServer and LoadFromConfigServerWithRawYaml return the
\* error of a failed fetch to the caller at once, without another fetch and
\* with the store as it was; LoadFromConfigServerWithRawYaml also returns an
\* error, with the store as it was, when no property source of the response
\* has the requested key.
C22_RemoteErrorsKeepStore ==
    /\ [](\A t \in Threads :
             /\ hist[t].fetched = "error" => Failed(t) /\ fr[t].err = "fetch"
             /\ (Failed(t) /\ fr[t].err \in {"fetch", "no key"}) => v.config = hist[t].pre
             /\ (fr[t].pc = "returned" /\ fr[t].name # "" /\ hist[t].fetched = "ok"
                 /\ \A n \in 1..Len(fr[t].srv) : fr[t].srv[n][fr[t].name] = Absent)
                    => fr[t].err = "no key")
    /\ [][\A t \in Threads :
             (fr[t].pc \in {"raw_fetch", "raw_get"} /\ Failed(t)') => v' = v]_vars

\* The fetch of a LoadFromConfigServer failed on a store that an earlier
\* LoadFromConfigServer had filled
C22_Witness ==
    \E t \in Threads :
        /\ Failed(t) /\ fr[t].err = "fetch" /\ fr[t].name = ""
        /\ DOMAIN v.override # Keys

\* C23: after a successful LoadFromFile the config layer is the overlay of
\* the current documents of the files of the resolved chain, last file first,
\* on nothing: what earlier loads left plays no part.  So a key an earlier
\* load brought in and no file of the chain defines is gone, and a load on a
\* store that holds the chain's content already leaves it as it is.
C23_StoreDependsOnChainOnly ==
    \A t \in Threads :
        (Succeeded(t) /\ fr[t].caller = "user" /\ fr[t].entryFile # EmptyStr) =>
            /\ v.config = Overlay(Reverse(fr[t].cfgFiles), EmptyConfig)
            /\ \A k \in Keys :
                   (\A n \in 1..Len(fr[t].cfgFiles) : Doc(fr[t].cfgFiles[n]).kv[k] = Nil)
                       => v.config.kv[k] = Nil

\* A load of another chain succeeded on a store that held a key none of the
\* chain's files defines
C23_Witness ==
    \E t \in Threads : \E k \in Keys :
        /\ Succeeded(t) /\ hist[t].pre.kv[k] # Nil /\ v.config.kv[k] = Nil
        /\ Len(fr[t].cfgFiles) = 2

\* The subscription s.watch starts for the call of frame f
SubOf(f) ==
    [n |-> 1, files |-> f.cfgFiles, entryFile |-> f.entryFile, opts |-> f.opts,
     opt |-> f.opt]

============================================================================
